---- MODULE Spec2Model ----
(***************************************************************************)
(* dmenu_drun (src/src/main.rs): the cache lifecycle (staleness check,     *)
(* build, serialization, load) and the dispatch of the selector's output.  *)
(*                                                                         *)
(* A Rust String is a sequence of one-character strings; the characters    *)
(* NUL, LF and CR are written "NUL", "LF" and "CR".  A HashMap<String,     *)
(* String> is a function from a finite set of such sequences to such       *)
(* sequences; its iteration order is not fixed by the program, so every    *)
(* place that iterates a map chooses an order.                             *)
(***************************************************************************)
EXTENDS Integers, Sequences, FiniteSets, TLC

VARIABLES
    pc,         \* position of the run in main, or the phase of a function under test
    cache,      \* main's `cache`: HashMap<String, String>
    text,       \* a serialized Cache (the output of Display, the input of from_str)
    parsed,     \* the result of Cache::from_str(text)
    dirs,       \* the watched directories: state, modification time, entries
    file,       \* the cache file: whether it exists, its content, its modification time
    now,        \* the file system's clock
    rebuild,    \* main's `rebuild_cache`
    fd,         \* main's `cache_file`: the open file description
    args,       \* the flags among the command-line arguments
    unfiltered, \* history: `cache` as it was before the filters of lines 80-88
    menu,       \* the text written to the selector's input
    output,     \* main's `output`: the selector's output, trimmed
    selStatus,  \* result.status.code(): the selector's exit code, if it has one
    spawned,    \* the commands spawned, in order, with the process that spawned each
    kids,       \* the copies made by daemon(): where each is
    exit,       \* the exit status of each process, once it has exited
    lastRun,    \* history: what the last completed run did ("rebuilt", "loaded"),
                \* "none" at first and once a watched directory is modified
    stdout,     \* result.stdout: what the selector printed, before line 110 trims it
    other       \* a second run of the program at the same time: its position in
                \* main, its `rebuild_cache`, its `cache_file` and its `cache`

codecVars == <<text, parsed>>
fsVars == <<dirs, file, now>>
dispVars == <<args, unfiltered, menu, output, selStatus, spawned, kids, exit>>
histVars == <<lastRun, stdout>>
otherVars == <<other>>
vars ==
    <<pc, cache, text, parsed, dirs, file, now, rebuild, fd,
      args, unfiltered, menu, output, selStatus, spawned, kids, exit, lastRun, stdout,
      other>>

(***************************************************************************)
(* Characters and strings                                                  *)
(***************************************************************************)
NUL == "NUL"
LF == "LF"
CR == "CR"
SP == " "

None == [none |-> TRUE]

EmptyMap == [k \in {} |-> <<>>]

\* the literal ".desktop" of lines 86 and 112
DESKTOP == <<".", "d", "e", "s", "k", "t", "o", "p">>

\* the literal "Name=" of lines 214 and 216
NAME_EQ == <<"N", "a", "m", "e", "=">>

\* str::starts_with
StartsWith(s, p) == Len(s) >= Len(p) /\ SubSeq(s, 1, Len(p)) = p

\* str::ends_with
EndsWith(s, p) == Len(s) >= Len(p) /\ SubSeq(s, Len(s) - Len(p) + 1, Len(s)) = p

\* str::trim_end_matches: the pattern is removed from the end repeatedly
RECURSIVE TrimEndMatches(_, _)
TrimEndMatches(s, p) ==
    IF Len(p) > 0 /\ EndsWith(s, p)
    THEN TrimEndMatches(SubSeq(s, 1, Len(s) - Len(p)), p)
    ELSE s

\* str::trim_start_matches: the pattern is removed from the start repeatedly
RECURSIVE TrimStartMatches(_, _)
TrimStartMatches(s, p) ==
    IF Len(p) > 0 /\ StartsWith(s, p)
    THEN TrimStartMatches(SubSeq(s, Len(p) + 1, Len(s)), p)
    ELSE s

\* index of the first occurrence of character c in s, 0 when there is none
RECURSIVE IndexOf(_, _, _)
IndexOf(s, c, i) ==
    IF i > Len(s) THEN 0
    ELSE IF s[i] = c THEN i
    ELSE IndexOf(s, c, i + 1)

\* str::split(c): the pieces between the occurrences of c (always at least one)
RECURSIVE Split(_, _)
Split(s, c) ==
    LET i == IndexOf(s, c, 1)
    IN  IF i = 0 THEN <<s>>
        ELSE <<SubSeq(s, 1, i - 1)>> \o Split(SubSeq(s, i + 1, Len(s)), c)

\* str::lines: a line ends at LF or at CR LF, the terminator is not part of the
\* line, and the last line needs no terminator
RECURSIVE Lines(_)
Lines(s) ==
    LET i == IndexOf(s, LF, 1)
        raw == SubSeq(s, 1, i - 1)
        line == IF Len(raw) > 0 /\ raw[Len(raw)] = CR
                THEN SubSeq(raw, 1, Len(raw) - 1)
                ELSE raw
    IN  IF i = 0 THEN (IF Len(s) = 0 THEN <<>> ELSE <<s>>)
        ELSE <<line>> \o Lines(SubSeq(s, i + 1, Len(s)))

\* HashMap::insert: a later insert of the same key replaces the value
Insert(m, k, v) == [x \in DOMAIN m \cup {k} |-> IF x = k THEN v ELSE m[x]]

\* HashMap::extend(iter): every entry of iter is inserted
Extend(m, iter) ==
    [x \in DOMAIN m \cup DOMAIN iter |-> IF x \in DOMAIN iter THEN iter[x] ELSE m[x]]

(***************************************************************************)
(* Cache: Display (lines 146-153) and FromStr (lines 155-169)              *)
(***************************************************************************)
\* the orders in which a map's entries can be iterated
Orders(m) ==
    {o \in [1..Cardinality(DOMAIN m) -> DOMAIN m] :
        \A i, j \in DOMAIN o : i # j => o[i] # o[j]}

\* write! in place of writeln!
FmtEntryNoNewline(k, v) == k \o <<NUL>> \o v

\* writeln!(f, "{}\0{}", k, v)
FmtEntry(k, v) == k \o <<NUL>> \o v \o <<LF>>

\* impl Display for Cache, iterating the map in order o
RECURSIVE Display(_, _)
Display(m, o) ==
    IF Len(o) = 0 THEN <<>>
    ELSE FmtEntry(Head(o), m[Head(o)]) \o Display(m, Tail(o))

\* the first two pieces are taken whenever there are at least two
CollectTupleFirstTwo(x) ==
    LET ps == Split(x, NUL)
    IN  IF Len(ps) >= 2 THEN <<ps[1], ps[2]>> ELSE None

\* x.split('\0').map(ToString::to_string).collect_tuple::<(_, _)>()
CollectTuple(x) ==
    LET ps == Split(x, NUL)
    IN  IF Len(ps) = 2 THEN <<ps[1], ps[2]>> ELSE None

\* .collect() of the (key, value) tuples of the lines, in order
RECURSIVE CollectLines(_, _)
CollectLines(ls, m) ==
    IF Len(ls) = 0 THEN m
    ELSE LET t == CollectTuple(Head(ls))
         IN  CollectLines(Tail(ls), IF t = None THEN m ELSE Insert(m, t[1], t[2]))

\* impl FromStr for Cache
FromStr(s) == CollectLines(Lines(s), EmptyMap)

(***************************************************************************)
(* The file system.  A directory is "ok", "nolist" (it exists but cannot   *)
(* be listed) or "gone" (its metadata cannot be read); an entry has a      *)
(* name, a kind, permission bits, whether it can be opened, and its lines. *)
(***************************************************************************)
\* lines 28-32: $PATH names one directory here
PATH_DIRS == <<"bin">>

\* lines 23-27
DESKTOP_DIRS == <<"Desktop", "usr", "local">>

Range(f) == {f[i] : i \in DOMAIN f}

\* st_mode's file type bits (what Metadata::is_file and mode() read)
S_IFREG == 32768
S_IFDIR == 16384
S_IFLNK == 40960

\* PermissionsExt::mode(): the whole st_mode
Mode(e) ==
    (CASE e.kind = "file" -> S_IFREG
       [] e.kind = "dir" -> S_IFDIR
       [] e.kind = "symlink" -> S_IFLNK) + e.perm

\* Metadata::is_file
IsFile(e) == (Mode(e) \div 4096) * 4096 = S_IFREG

\* a & b on naturals
RECURSIVE BitAnd(_, _)
BitAnd(a, b) ==
    IF a = 0 \/ b = 0 THEN 0
    ELSE (a % 2) * (b % 2) + 2 * BitAnd(a \div 2, b \div 2)

\* !a on the low 16 bits of the u32 (st_mode has no higher bit set, and the
\* mask 0o111 of line 228 drops the higher bits of the complement)
BitNot(a) == 65535 - a

\* 0o111, line 228
X_BITS == 73

\* Path::extension: what follows the last '.' of the file name, None when there
\* is no '.' or the only '.' starts the name
RECURSIVE LastIndexOf(_, _, _)
LastIndexOf(s, c, i) ==
    IF i = 0 THEN 0
    ELSE IF s[i] = c THEN i
    ELSE LastIndexOf(s, c, i - 1)

Extension(name) ==
    LET i == LastIndexOf(name, ".", Len(name))
    IN  IF i <= 1 THEN None ELSE SubSeq(name, i + 1, Len(name))

\* mode & 0o111 != 0 in place of !mode & 0o111 == 0
PathAnyBit(e) == BitAnd(Mode(e), X_BITS) # 0

\* line 228 and .contains(&0) of line 229
PathAllBits(e) == BitAnd(BitNot(Mode(e)), X_BITS) = 0

\* lines 226-231: the predicate of create_path_cache
PathPredicate(e) == e.meta /\ PathAllBits(e) /\ IsFile(e)

\* lines 201-208: the predicate of create_desktop_cache
DesktopPredicate(e) ==
    IF Extension(e.name) # None
    THEN Extension(e.name) = SubSeq(DESKTOP, 2, Len(DESKTOP)) /\ e.meta /\ IsFile(e)
    ELSE FALSE

\* line 232: the localizer of create_path_cache
PathLocalizer(e) == e.name

\* .find(|x| x.starts_with("Name=")).unwrap_or_default()
RECURSIVE FindName(_)
FindName(ls) ==
    IF Len(ls) = 0 THEN <<>>
    ELSE IF StartsWith(Head(ls), NAME_EQ) THEN Head(ls)
    ELSE FindName(Tail(ls))

\* lines 209-218: the localizer of create_desktop_cache
DesktopLocalizer(e) == TrimStartMatches(FindName(e.lines), NAME_EQ)

\* the orders in which read_dir can yield the entries of a set
EntryOrders(es) ==
    {o \in [1..Cardinality(es) -> es] : \A i, j \in DOMAIN o : i # j => o[i] # o[j]}

\* lines 259-264: the entries of the directories ds that can be listed, in the
\* order of ds; the set of the sequences read_dir can yield
RECURSIVE ReadDirExists(_, _)
ReadDirExists(fs, ds) ==
    IF Len(ds) = 0 THEN {<<>>}
    ELSE LET d == fs[Head(ds)]
             here == IF d.state = "ok" THEN EntryOrders(d.entries) ELSE {<<>>}
         IN  {h \o t : h \in here, t \in ReadDirExists(fs, Tail(ds))}

\* every entry of the directories of fs: the domain of a closure over DirEntry
Entries(fs) == UNION {fs[d].entries : d \in DOMAIN fs}

\* lines 255-267: read_dir_exists_filtered; the set of the vectors it can return.
\* The closure predicate is a function from the entries to BOOLEAN
ReadDirExistsFiltered(fs, ds, predicate) ==
    {SelectSeq(v, LAMBDA e : predicate[e]) : v \in ReadDirExists(fs, ds)}

\* lines 188-190: cache.0.insert(key, file_name) for each (key, file_name) in turn
RECURSIVE InsertAll(_, _)
InsertAll(kvs, m) ==
    IF Len(kvs) = 0 THEN m
    ELSE InsertAll(Tail(kvs), Insert(m, Head(kvs)[1], Head(kvs)[2]))

\* an entry is taken whether or not it can be opened
OpenedAlways(e) == TRUE

\* lines 178-192: the loop of create_cache over the scanned entries es; an entry
\* that File::open cannot open is skipped
Opened(e) == e.openOk

\* the closure localizer is a function from the entries to their keys
CreateCacheMap(es, localizer) ==
    LET opened == SelectSeq(es, Opened)
    IN  InsertAll([i \in DOMAIN opened |-> <<localizer[opened[i]], opened[i].name>>],
                  EmptyMap)

\* write(2) of bytes at offset pos: what lies beyond the written bytes stays,
\* and a gap between the end of the file and pos reads as zero bytes
WriteAt(content, pos, bytes) ==
    LET end == pos + Len(bytes)
        padded == content \o [i \in 1..(pos - Len(content)) |-> NUL]
    IN  IF Len(bytes) = 0 THEN content
        ELSE SubSeq(padded, 1, pos) \o bytes \o SubSeq(content, end + 1, Len(content))

(***************************************************************************)
(* main, lines 47-78: the staleness check, the open, the build or the load *)
(***************************************************************************)
\* std::time::UNIX_EPOCH, line 53
UNIX_EPOCH == 0

NoFd == [read |-> FALSE, write |-> FALSE, append |-> FALSE, pos |-> 0]

\* a run that has not started
NoRun == [pc |-> "idle", rebuild |-> FALSE, fd |-> NoFd, cache |-> EmptyMap]

\* the cache file's permission bits for the user: "rw", "r" (read-only) or "w"
\* (write-only)
NoFile == [exists |-> FALSE, content |-> <<>>, mtime |-> UNIX_EPOCH, mode |-> "rw"]

\* PATH_DIRS.iter().chain(DESKTOP_DIRS.iter()), line 56
Watched == Range(PATH_DIRS) \cup Range(DESKTOP_DIRS)

\* lines 51-53
CacheMtime(f) == IF f.exists THEN f.mtime ELSE UNIX_EPOCH

\* the comparison with >= in place of >
NewerOrEqual(d, t) == IF d.state # "gone" THEN d.mtime >= t ELSE FALSE

\* lines 57-59: x.metadata().map(|x| x.modified().unwrap() > cache_mtime).unwrap_or(false)
Newer(d, t) == IF d.state # "gone" THEN d.mtime > t ELSE FALSE

\* lines 55-60
RebuildCache(f, fs) == (~f.exists) \/ (\E d \in Watched : Newer(fs[d], CacheMtime(f)))

\* lines 47-60
Start ==
    /\ pc = "idle"
    /\ rebuild' = RebuildCache(file, dirs)
    /\ pc' = "open"
    /\ UNCHANGED <<cache, codecVars, histVars, otherVars, dispVars, fsVars, fd>>

\* the file is opened for appending whether or not the run rebuilds
OpenExistingAppend(rb) == [read |-> TRUE, write |-> TRUE, append |-> TRUE, pos |-> 0]

\* lines 62-66 on a file that exists: OpenOptions read, write(rebuild_cache),
\* append(!rebuild_cache); neither create nor truncate is set
OpenExisting(rb) == [read |-> TRUE, write |-> TRUE, append |-> ~rb, pos |-> 0]

\* line 67: File::create, reached when the open fails because there is no file
Created == [read |-> FALSE, write |-> TRUE, append |-> FALSE, pos |-> 0]

\* lines 62-66: the open asks for reading and for writing (O_RDWR, with O_APPEND
\* for reuse), so it needs an existing file that may be read and written
CanOpen(f) == f.exists /\ f.mode = "rw"

\* line 67: File::create (O_WRONLY | O_CREAT | O_TRUNC) needs no file, or one
\* that may be written
CanCreate(f) == (~f.exists) \/ f.mode \in {"rw", "w"}

\* line 67: the file after File::create: a new file, or the old one cut to
\* nothing
CreatedFile(f) ==
    [exists |-> TRUE, content |-> <<>>, mtime |-> now,
     mode |-> IF f.exists THEN f.mode ELSE "rw"]

\* the exit code of a Rust process that panics (the .expect of lines 68, 120,
\* 128, 134 and 137)
PanicCode == 101

\* the exit code of a Rust process whose main returns Err (the ? of lines 71-77)
ErrCode == 1

\* lines 62-68: the open; when it fails for any reason, File::create; when that
\* fails too, the .expect panics
OpenCache ==
    /\ pc = "open"
    /\ IF CanOpen(file)
       THEN /\ fd' = OpenExisting(rebuild)
            /\ pc' = IF rebuild THEN "build_path" ELSE "load"
            /\ UNCHANGED <<file, exit>>
       ELSE IF CanCreate(file)
       THEN /\ fd' = Created
            /\ file' = CreatedFile(file)
            /\ pc' = IF rebuild THEN "build_path" ELSE "load"
            /\ UNCHANGED exit
       ELSE /\ pc' = "done"
            /\ exit' = [exit EXCEPT !["fg"] = <<PanicCode>>]
            /\ UNCHANGED <<fd, file>>
    /\ UNCHANGED <<cache, codecVars, histVars, otherVars, dirs, now, rebuild, args, unfiltered,
                   menu, output, selStatus, spawned, kids>>

\* line 193: write!(writer, "{}", cache), flushed when the BufWriter is dropped;
\* the bytes go to the file offset of the shared description (to the end of the
\* file when it was opened for appending); writing nothing leaves the
\* modification time alone
FileAfterWrite(f, d, bytes) ==
    [f EXCEPT !.content = WriteAt(f.content, IF d.append THEN Len(f.content) ELSE d.pos, bytes),
              !.mtime = IF Len(bytes) > 0 THEN now ELSE @]

FdAfterWrite(f, d, bytes) ==
    [d EXCEPT !.pos = (IF d.append THEN Len(f.content) ELSE d.pos) + Len(bytes)]

\* line 71: create_path_cache(&cache_file)?.0  (lines 222-234, 171-195)
BuildPath ==
    /\ pc = "build_path"
    /\ \E es \in ReadDirExistsFiltered(dirs, PATH_DIRS,
                                         [e \in Entries(dirs) |-> PathPredicate(e)]) :
         LET built == CreateCacheMap(es, [e \in Entries(dirs) |-> PathLocalizer(e)])
         IN  \E o \in Orders(built) :
                /\ cache' = built
                /\ file' = FileAfterWrite(file, fd, Display(built, o))
                /\ fd' = FdAfterWrite(file, fd, Display(built, o))
    /\ pc' = "build_desktop"
    /\ UNCHANGED <<codecVars, histVars, otherVars, dispVars, dirs, now, rebuild>>

\* line 72: cache.extend(create_desktop_cache(&cache_file)?.0)  (lines 197-220, 171-195)
BuildDesktop ==
    /\ pc = "build_desktop"
    /\ \E es \in ReadDirExistsFiltered(dirs, DESKTOP_DIRS,
                                         [e \in Entries(dirs) |-> DesktopPredicate(e)]) :
         LET built == CreateCacheMap(es, [e \in Entries(dirs) |-> DesktopLocalizer(e)])
         IN  \E o \in Orders(built) :
                /\ cache' = Extend(cache, built)
                /\ file' = FileAfterWrite(file, fd, Display(built, o))
                /\ fd' = FdAfterWrite(file, fd, Display(built, o))
    /\ pc' = "filter"
    /\ UNCHANGED <<codecVars, histVars, otherVars, dispVars, dirs, now, rebuild>>

\* lines 75-77: read_to_string, then Cache::from_str; reading a description
\* that was not opened for reading fails and the ? of line 76 ends main
Load ==
    /\ pc = "load"
    /\ IF fd.read
       THEN /\ cache' = FromStr(file.content)
            /\ fd' = [fd EXCEPT !.pos = Len(file.content)]
            /\ pc' = "filter"
            /\ UNCHANGED exit
       ELSE /\ pc' = "done"
            /\ exit' = [exit EXCEPT !["fg"] = <<ErrCode>>]
            /\ UNCHANGED <<cache, fd>>
    /\ UNCHANGED <<codecVars, histVars, otherVars, fsVars, rebuild, args, unfiltered, menu, output,
                   selStatus, spawned, kids>>

\* lines 80-140 touch neither the cache file nor the watched directories; the
\* process ends and its file description is closed
Finish ==
    /\ pc = "filter"
    /\ pc' = "idle"
    /\ cache' = EmptyMap
    /\ rebuild' = FALSE
    /\ fd' = NoFd
    /\ lastRun' = IF rebuild THEN "rebuilt" ELSE "loaded"
    /\ UNCHANGED <<codecVars, dispVars, fsVars, stdout, otherVars>>

(***************************************************************************)
(* main, lines 80-140: the filters, the selector, the dispatch, the exit.  *)
(* daemon() of the fork crate forks twice: "fg" is the process the user    *)
(* started, "mid" its child (the session leader), "bg" the child of "mid". *)
(***************************************************************************)
Roles == {"fg", "mid", "bg"}

NoKids == [r \in {"mid", "bg"} |-> "none"]

\* an exit code n is <<n>>; no exit code (yet) is <<>>
Code(n) == <<n>>

NoCode == <<>>

NoExit == [r \in Roles |-> NoCode]

TAB == "TAB"

\* the characters char::is_whitespace holds for
WS == {SP, TAB, LF, CR}

RECURSIVE TrimStart(_)
TrimStart(s) == IF Len(s) > 0 /\ Head(s) \in WS THEN TrimStart(Tail(s)) ELSE s

RECURSIVE TrimEnd(_)
TrimEnd(s) ==
    IF Len(s) > 0 /\ s[Len(s)] \in WS THEN TrimEnd(SubSeq(s, 1, Len(s) - 1)) ELSE s

\* str::trim
Trim(s) == TrimEnd(TrimStart(s))

\* index of the first whitespace character of s from i on, 0 when there is none
RECURSIVE FirstWs(_, _)
FirstWs(s, i) ==
    IF i > Len(s) THEN 0
    ELSE IF s[i] \in WS THEN i
    ELSE FirstWs(s, i + 1)

\* str::split_whitespace: the non-empty pieces between runs of whitespace
RECURSIVE SplitWhitespace(_)
SplitWhitespace(s) ==
    LET t == TrimStart(s)
        i == FirstWs(t, 1)
    IN  IF Len(t) = 0 THEN <<>>
        ELSE IF i = 0 THEN <<t>>
        ELSE <<SubSeq(t, 1, i - 1)>> \o SplitWhitespace(SubSeq(t, i + 1, Len(t)))

\* split(' ') in place of split_whitespace: an empty string gives one empty piece
TokensOrEmptyName(o) == IF SplitWhitespace(o) = <<>> THEN <<o>> ELSE SplitWhitespace(o)

\* line 133: output.split_whitespace()
Tokens(o) == SplitWhitespace(o)

\* HashMap::drain_filter(pred).collect(): drain_filter removes and yields the
\* entries the predicate holds for, and the yielded entries are collected. The
\* closure pred is a function from the entries (k, v) of m to BOOLEAN
DrainFilterCollect(m, pred) == [k \in {x \in DOMAIN m : pred[<<x, m[x]>>]} |-> m[k]]

\* the entries (k, v) of a mapping: the domain of a closure over them
Pairs(m) == {<<k, m[k]>> : k \in DOMAIN m}

\* line 81: |k, v| k != v
KeyIsNotValue(k, v) == k # v

\* line 86: |_, v| !v.ends_with(".desktop")
NotDesktopFile(k, v) == ~EndsWith(v, DESKTOP)

\* retain in place of drain_filter: the entries the predicate fails for are kept
HidePathRetain(m) == DrainFilterCollect(m, [p \in Pairs(m) |-> ~KeyIsNotValue(p[1], p[2])])

\* lines 80-82
HidePath(m) == DrainFilterCollect(m, [p \in Pairs(m) |-> KeyIsNotValue(p[1], p[2])])

\* retain in place of drain_filter: the entries the predicate fails for are kept
HideDesktopRetain(m) == DrainFilterCollect(m, [p \in Pairs(m) |-> ~NotDesktopFile(p[1], p[2])])

\* lines 84-88
HideDesktop(m) == DrainFilterCollect(m, [p \in Pairs(m) |-> NotDesktopFile(p[1], p[2])])

\* lines 80-88
Filter ==
    /\ pc = "filter"
    /\ unfiltered' = cache
    /\ cache' = LET c == IF "-p" \in args THEN HidePath(cache) ELSE cache
                IN  IF "-d" \in args THEN HideDesktop(c) ELSE c
    /\ pc' = "menu"
    /\ UNCHANGED <<codecVars, histVars, otherVars, fsVars, rebuild, fd, args, menu, output, selStatus,
                   spawned, kids, exit>>

\* the characters in ascending byte order
ByteOrder ==
    <<NUL, TAB, LF, CR, SP, "-", ".", "/", "=", "F", "N", "X", "a", "b", "d", "e",
      "f", "i", "k", "l", "m", "n", "o", "p", "r", "s", "t", "v", "x">>

Byte(c) == CHOOSE i \in DOMAIN ByteOrder : ByteOrder[i] = c

\* Ord for String: byte-wise lexicographic
RECURSIVE StrLe(_, _)
StrLe(a, b) ==
    IF Len(a) = 0 THEN TRUE
    ELSE IF Len(b) = 0 THEN FALSE
    ELSE IF Head(a) = Head(b) THEN StrLe(Tail(a), Tail(b))
    ELSE Byte(Head(a)) < Byte(Head(b))

\* lines 102-103: cache.keys().collect_vec(), then sort_unstable
RECURSIVE SortKeys(_)
SortKeys(S) ==
    IF S = {} THEN <<>>
    ELSE LET m == CHOOSE x \in S : \A y \in S : StrLe(x, y)
         IN  <<m>> \o SortKeys(S \ {m})

\* line 104: Vec::dedup removes consecutive repeats
RECURSIVE Dedup(_)
Dedup(q) ==
    IF Len(q) <= 1 THEN q
    ELSE IF q[1] = q[2] THEN Dedup(Tail(q))
    ELSE <<q[1]>> \o Dedup(Tail(q))

\* line 105: join("\n")
RECURSIVE Join(_, _)
Join(q, sep) ==
    IF Len(q) = 0 THEN <<>>
    ELSE IF Len(q) = 1 THEN q[1]
    ELSE q[1] \o sep \o Join(Tail(q), sep)

\* the keys are taken from the cache as it was before the filters
MenuBeforeFilters ==
    /\ pc = "menu"
    /\ menu' = Join(Dedup(SortKeys(DOMAIN unfiltered)), <<LF>>) \o <<LF>>
    /\ pc' = "select"
    /\ UNCHANGED <<cache, codecVars, histVars, otherVars, fsVars, rebuild, fd, args, unfiltered, output,
                   selStatus, spawned, kids, exit>>

\* lines 93-107: the selector is spawned and the menu is written to its input
Menu ==
    /\ pc = "menu"
    /\ menu' = Join(Dedup(SortKeys(DOMAIN cache)), <<LF>>) \o <<LF>>
    /\ pc' = "select"
    /\ UNCHANGED <<cache, codecVars, histVars, otherVars, fsVars, rebuild, fd, args, unfiltered, output,
                   selStatus, spawned, kids, exit>>

Vim == <<"v", "i", "m">>
Firefox == <<"F", "i", "r", "e", "f", "o", "x">>
FirefoxDesktop == <<"f", "i", "r", "e", "f", "o", "x">> \o DESKTOP
Ls == <<"l", "s", SP, "-", "l", "a", SP, "/", "t", "m", "p">>

\* what the selector can print: a displayed name, a typed command line, a name
\* with the shortcut suffix, nothing (the menu was cancelled), only whitespace
RawOutputs ==
    {Vim \o <<LF>>, Firefox \o <<LF>>, Ls \o <<LF>>, <<"x">> \o DESKTOP \o <<LF>>,
     <<>>, <<SP, LF>>}

\* an exit code, or none for a selector that a signal ended
SelStatuses == {Code(0), Code(1), NoCode}

\* lines 109-113: wait_with_output, then trim and trim_end_matches(".desktop")
TrimOutput(raw) == TrimEndMatches(Trim(raw), DESKTOP)

Select ==
    /\ pc = "select"
    /\ \E raw \in RawOutputs, st \in SelStatuses :
         /\ stdout' = raw
         /\ output' = TrimOutput(raw)
         /\ selStatus' = st
    /\ pc' = "dispatch"
    /\ UNCHANGED <<cache, codecVars, lastRun, otherVars, fsVars, rebuild, fd, args, unfiltered, menu,
                   spawned, kids, exit>>

\* line 125
GTK_LAUNCH == <<"g", "t", "k", "-", "l", "a", "u", "n", "c", "h">>

\* Command::spawn fails, or the child runs and wait() gives its exit code, if
\* it has one
SpawnResults ==
    {[started |-> FALSE, status |-> NoCode]}
        \cup {[started |-> TRUE, status |-> st] : st \in {Code(0), Code(3), NoCode}}

Spawn(by, prog, as, r) ==
    [by |-> by, prog |-> prog, args |-> as, started |-> r.started, status |-> r.status]

\* the entry is launched without the comparison
IsDirectAlways(o, entry) == TRUE

\* line 117: &output == entry
IsDirect(o, entry) == o = entry

\* the launched command's status is propagated when there is one
ExitCodeOfLaunched(sel, launched) ==
    IF launched # NoCode THEN launched ELSE IF sel # NoCode THEN sel ELSE Code(-1)

\* line 140: result.status.code().unwrap_or(-1); the launched command's
\* status was dropped by `let _ =`
ExitCode(sel, launched) == IF sel # NoCode THEN sel ELSE Code(-1)

\* the exit code wait() gave for the command process r launched, if any
LaunchedStatus(r) ==
    LET mine == SelectSeq(spawned, LAMBDA x : x.by = r /\ x.started)
    IN  IF Len(mine) = 0 THEN NoCode ELSE mine[Len(mine)].status

\* lines 116-121: the entry is its own key
DispatchDirect ==
    /\ pc = "dispatch"
    /\ output \in DOMAIN cache
    /\ IsDirect(output, cache[output])
    /\ \E r \in SpawnResults :
         /\ spawned' = Append(spawned, Spawn("fg", cache[output], <<>>, r))
         /\ pc' = IF r.started THEN "exit" ELSE "done"
         /\ exit' = IF r.started THEN exit ELSE [exit EXCEPT !["fg"] = Code(PanicCode)]
    /\ UNCHANGED <<cache, codecVars, histVars, otherVars, fsVars, rebuild, fd, args, unfiltered, menu,
                   output, selStatus, kids>>

\* the helper is spawned and waited for by the process the user started, without
\* daemon()
LaunchHelperInForeground ==
    /\ pc = "dispatch"
    /\ output \in DOMAIN cache
    /\ ~IsDirect(output, cache[output])
    /\ \E r \in SpawnResults :
         /\ spawned' = Append(spawned, Spawn("fg", GTK_LAUNCH, <<cache[output]>>, r))
         /\ pc' = IF r.started THEN "exit" ELSE "done"
         /\ exit' = IF r.started THEN exit ELSE [exit EXCEPT !["fg"] = Code(PanicCode)]
    /\ UNCHANGED <<cache, codecVars, histVars, otherVars, fsVars, rebuild, fd, args, unfiltered, menu,
                   output, selStatus, kids>>

\* line 124, in the process the user started: daemon(true, true) forks; the
\* parent of a successful fork exits with 0 inside daemon(), a failed fork
\* returns Err and the run goes on to line 140
Daemonize ==
    /\ pc = "dispatch"
    /\ output \in DOMAIN cache
    /\ ~IsDirect(output, cache[output])
    /\ \E forked \in BOOLEAN :
         /\ pc' = IF forked THEN "done" ELSE "exit"
         /\ exit' = IF forked THEN [exit EXCEPT !["fg"] = Code(0)] ELSE exit
         /\ kids' = IF forked THEN [kids EXCEPT !["mid"] = "setsid"] ELSE kids
    /\ UNCHANGED <<cache, codecVars, histVars, otherVars, fsVars, rebuild, fd, args, unfiltered, menu,
                   output, selStatus, spawned>>

\* line 124, in the first child: setsid, then the second fork; its parent gets
\* Ok(Fork::Parent) or Err, either of which skips to line 140; its child gets
\* Ok(Fork::Child)
Detach ==
    /\ kids["mid"] = "setsid"
    /\ \E forked \in BOOLEAN :
         kids' = [kids EXCEPT !["mid"] = "exit",
                              !["bg"] = IF forked THEN "helper" ELSE "none"]
    /\ UNCHANGED <<pc, cache, codecVars, histVars, otherVars, fsVars, rebuild, fd, args, unfiltered, menu,
                   output, selStatus, spawned, exit>>

\* lines 125-129, in the detached copy
LaunchHelper ==
    /\ kids["bg"] = "helper"
    /\ \E r \in SpawnResults :
         /\ spawned' = Append(spawned, Spawn("bg", GTK_LAUNCH, <<cache[output]>>, r))
         /\ kids' = [kids EXCEPT !["bg"] = IF r.started THEN "exit" ELSE "done"]
         /\ exit' = IF r.started THEN exit ELSE [exit EXCEPT !["bg"] = Code(PanicCode)]
    /\ UNCHANGED <<pc, cache, codecVars, histVars, otherVars, fsVars, rebuild, fd, args, unfiltered, menu,
                   output, selStatus>>

\* lines 133-138: the output is no key of the cache
DispatchFreeform ==
    /\ pc = "dispatch"
    /\ output \notin DOMAIN cache
    /\ LET toks == Tokens(output)
       IN  IF Len(toks) = 0
           THEN \* .expect("Got empty output from dmenu")
                /\ pc' = "done"
                /\ exit' = [exit EXCEPT !["fg"] = Code(PanicCode)]
                /\ UNCHANGED spawned
           ELSE \E r \in SpawnResults :
                /\ spawned' = Append(spawned, Spawn("fg", Head(toks), Tail(toks), r))
                /\ pc' = IF r.started THEN "exit" ELSE "done"
                /\ exit' = IF r.started THEN exit ELSE [exit EXCEPT !["fg"] = Code(PanicCode)]
    /\ UNCHANGED <<cache, codecVars, histVars, otherVars, fsVars, rebuild, fd, args, unfiltered, menu,
                   output, selStatus, kids>>

\* line 140, in the process the user started
ExitMain ==
    /\ pc = "exit"
    /\ pc' = "done"
    /\ exit' = [exit EXCEPT !["fg"] = ExitCode(selStatus, LaunchedStatus("fg"))]
    /\ UNCHANGED <<cache, codecVars, histVars, otherVars, fsVars, rebuild, fd, args, unfiltered, menu,
                   output, selStatus, spawned, kids>>

\* line 140, in a copy made by daemon()
ExitKid(r) ==
    /\ kids[r] = "exit"
    /\ kids' = [kids EXCEPT ![r] = "done"]
    /\ exit' = [exit EXCEPT ![r] = ExitCode(selStatus, LaunchedStatus(r))]
    /\ UNCHANGED <<pc, cache, codecVars, histVars, otherVars, fsVars, rebuild, fd, args, unfiltered, menu,
                   output, selStatus, spawned>>

(***************************************************************************)
(* The environment between two runs: files appear in and vanish from the   *)
(* watched directories, a directory is removed or created, time passes     *)
(***************************************************************************)
MaxTime == 2

Exe(n) ==
    [name |-> n, kind |-> "file", perm |-> 493, meta |-> TRUE, openOk |-> TRUE,
     lines |-> <<>>]

Shortcut(stem, title) ==
    [name |-> stem \o DESKTOP, kind |-> "file", perm |-> 420, meta |-> TRUE,
     openOk |-> TRUE, lines |-> <<NAME_EQ \o title>>]

\* the files that can be in each directory
FilesOf(d) ==
    CASE d = "bin" -> {Exe(<<"F">>)}
      [] d = "Desktop" -> {}
      [] d = "usr" -> {Shortcut(<<"a">>, <<"F">>), Shortcut(<<"x">>, <<"X">>)}
      [] d = "local" -> {Shortcut(<<"b">>, <<"F">>)}

Dir(st, es, t) == [state |-> st, entries |-> es, mtime |-> t]

\* a file is added to or removed from d, d is removed, or d is created again:
\* the directory's modification time becomes the current time
Modify(d) ==
    /\ pc = "idle"
    /\ \E st \in {"ok", "gone"}, es \in SUBSET FilesOf(d) :
         /\ st = "gone" => (d = "Desktop" /\ es = {})
         /\ <<st, es>> # <<dirs[d].state, dirs[d].entries>>
         /\ dirs' = [dirs EXCEPT ![d] = Dir(st, es, IF st = "gone" THEN UNIX_EPOCH ELSE now)]
    /\ lastRun' = "none"
    /\ UNCHANGED <<pc, cache, codecVars, dispVars, file, now, rebuild, fd, stdout, otherVars>>

Tick ==
    /\ pc = "idle"
    /\ now < MaxTime
    /\ now' = now + 1
    /\ UNCHANGED <<pc, cache, codecVars, histVars, otherVars, dispVars, dirs, file, rebuild, fd>>

Init ==
    /\ pc = "idle"
    /\ cache = EmptyMap
    /\ text = <<>>
    /\ parsed = EmptyMap
    /\ dirs = [d \in Watched |-> Dir("ok", {}, UNIX_EPOCH)]
    /\ file = NoFile
    /\ now = 1
    /\ rebuild = FALSE
    /\ fd = NoFd
    /\ args = {}
    /\ unfiltered = EmptyMap
    /\ menu = <<>>
    /\ output = <<>>
    /\ selStatus = NoCode
    /\ spawned = <<>>
    /\ kids = NoKids
    /\ exit = NoExit
    /\ lastRun = "none"
    /\ stdout = <<>>
    /\ other = NoRun

Next ==
    \/ Start
    \/ OpenCache
    \/ BuildPath
    \/ BuildDesktop
    \/ Load
    \/ Finish
    \/ \E d \in Watched : Modify(d)
    \/ Tick

Spec == Init /\ [][Next]_vars

(***************************************************************************)
(* Lines 80-140 on their own: the run has built or loaded its cache        *)
(***************************************************************************)
\* entries a build produces: a direct entry, a desktop entry, the entry of a
\* shortcut without a Name= line, and an executable whose name ends in .desktop
DispatchEntries ==
    {<<Vim, Vim>>, <<Firefox, FirefoxDesktop>>, <<<<>>, <<"n">> \o DESKTOP>>,
     <<<<"x">> \o DESKTOP, <<"x">> \o DESKTOP>>}

DispatchCaches ==
    {[k \in {e[1] : e \in es} |-> (CHOOSE e \in es : e[1] = k)[2]] :
        es \in SUBSET DispatchEntries}

DispatchInit ==
    /\ pc = "filter"
    /\ cache \in DispatchCaches
    /\ args \in SUBSET {"-p", "-d"}
    /\ text = <<>>
    /\ parsed = EmptyMap
    /\ dirs = [d \in Watched |-> Dir("ok", {}, UNIX_EPOCH)]
    /\ file = NoFile
    /\ now = 1
    /\ rebuild = FALSE
    /\ fd = NoFd
    /\ unfiltered = EmptyMap
    /\ menu = <<>>
    /\ output = <<>>
    /\ selStatus = NoCode
    /\ spawned = <<>>
    /\ kids = NoKids
    /\ exit = NoExit
    /\ lastRun = "none"
    /\ stdout = <<>>
    /\ other = NoRun

DispatchNext ==
    \/ Filter
    \/ Menu
    \/ Select
    \/ DispatchDirect
    \/ Daemonize
    \/ Detach
    \/ LaunchHelper
    \/ DispatchFreeform
    \/ ExitMain
    \/ \E r \in {"mid", "bg"} : ExitKid(r)

SpecDispatch == DispatchInit /\ [][DispatchNext]_vars

\* the steps of the process the user started, of the session leader and of the
\* detached copy
FgNext == Filter \/ Menu \/ Select \/ DispatchDirect \/ Daemonize \/ DispatchFreeform \/ ExitMain

MidNext == Detach \/ ExitKid("mid")

BgNext == LaunchHelper \/ ExitKid("bg")

\* each process that can take a step is scheduled eventually
SpecDispatchLive ==
    /\ DispatchInit
    /\ [][DispatchNext]_vars
    /\ WF_vars(FgNext)
    /\ WF_vars(MidNext)
    /\ WF_vars(BgNext)

(***************************************************************************)
(* One whole run, lines 47-140, over a cache file that is absent or holds  *)
(* two entries and may be read-only or write-only, with directories as new *)
(* as the cache file or newer                                              *)
(***************************************************************************)
\* the serialization of {Firefox -> firefox.desktop, vim -> vim}
RunContent == FmtEntry(Firefox, FirefoxDesktop) \o FmtEntry(Vim, Vim)

RunFiles ==
    {NoFile} \cup
    {[exists |-> TRUE, content |-> RunContent, mtime |-> 1, mode |-> m] :
        m \in {"rw", "r", "w"}}

RunDirs(t) ==
    [d \in Watched |->
        CASE d = "bin" -> Dir("ok", {Exe(Vim)}, t)
          [] d = "usr" -> Dir("ok", {Shortcut(<<"f", "i", "r", "e", "f", "o", "x">>, Firefox)},
                              UNIX_EPOCH)
          [] OTHER -> Dir("ok", {}, UNIX_EPOCH)]

RunInit ==
    /\ pc = "idle"
    /\ cache = EmptyMap
    /\ text = <<>>
    /\ parsed = EmptyMap
    /\ \E t \in {1, 2} : dirs = RunDirs(t)
    /\ file \in RunFiles
    /\ now = 2
    /\ rebuild = FALSE
    /\ fd = NoFd
    /\ args \in SUBSET {"-p", "-d"}
    /\ unfiltered = EmptyMap
    /\ menu = <<>>
    /\ output = <<>>
    /\ selStatus = NoCode
    /\ spawned = <<>>
    /\ kids = NoKids
    /\ exit = NoExit
    /\ lastRun = "none"
    /\ stdout = <<>>
    /\ other = NoRun

RunNext ==
    \/ Start
    \/ OpenCache
    \/ BuildPath
    \/ BuildDesktop
    \/ Load
    \/ DispatchNext

SpecRun == RunInit /\ [][RunNext]_vars

(***************************************************************************)
(* Two runs at the same time.  The second run executes the same lines      *)
(* 47-78 on its own locals (the record `other`) and on the same cache file *)
(* and directories; nothing in the program makes one run wait for another. *)
(***************************************************************************)
mainVars == <<pc, cache, rebuild, fd>>

\* lines 47-60 in the second run
OtherStart ==
    /\ other.pc = "idle"
    /\ other' = [other EXCEPT !.rebuild = RebuildCache(file, dirs), !.pc = "open"]
    /\ UNCHANGED <<mainVars, codecVars, dispVars, histVars, fsVars>>

\* lines 62-68 in the second run
OtherOpen ==
    /\ other.pc = "open"
    /\ IF CanOpen(file)
       THEN /\ other' = [other EXCEPT !.fd = OpenExisting(other.rebuild),
                                      !.pc = IF other.rebuild THEN "build_path" ELSE "load"]
            /\ UNCHANGED file
       ELSE IF CanCreate(file)
       THEN /\ other' = [other EXCEPT !.fd = Created,
                                      !.pc = IF other.rebuild THEN "build_path" ELSE "load"]
            /\ file' = CreatedFile(file)
       ELSE /\ other' = [other EXCEPT !.pc = "done"]
            /\ UNCHANGED file
    /\ UNCHANGED <<mainVars, codecVars, dispVars, histVars, dirs, now>>

\* line 71 in the second run
OtherBuildPath ==
    /\ other.pc = "build_path"
    /\ \E es \in ReadDirExistsFiltered(dirs, PATH_DIRS,
                                         [e \in Entries(dirs) |-> PathPredicate(e)]) :
         LET built == CreateCacheMap(es, [e \in Entries(dirs) |-> PathLocalizer(e)])
         IN  \E o \in Orders(built) :
                /\ file' = FileAfterWrite(file, other.fd, Display(built, o))
                /\ other' = [other EXCEPT
                                 !.cache = built,
                                 !.fd = FdAfterWrite(file, other.fd, Display(built, o)),
                                 !.pc = "build_desktop"]
    /\ UNCHANGED <<mainVars, codecVars, dispVars, histVars, dirs, now>>

\* line 72 in the second run
OtherBuildDesktop ==
    /\ other.pc = "build_desktop"
    /\ \E es \in ReadDirExistsFiltered(dirs, DESKTOP_DIRS,
                                         [e \in Entries(dirs) |-> DesktopPredicate(e)]) :
         LET built == CreateCacheMap(es, [e \in Entries(dirs) |-> DesktopLocalizer(e)])
         IN  \E o \in Orders(built) :
                /\ file' = FileAfterWrite(file, other.fd, Display(built, o))
                /\ other' = [other EXCEPT
                                 !.cache = Extend(other.cache, built),
                                 !.fd = FdAfterWrite(file, other.fd, Display(built, o)),
                                 !.pc = "filter"]
    /\ UNCHANGED <<mainVars, codecVars, dispVars, histVars, dirs, now>>

\* lines 75-77 in the second run
OtherLoad ==
    /\ other.pc = "load"
    /\ other' = IF other.fd.read
                THEN [other EXCEPT !.cache = FromStr(file.content),
                                   !.fd = [other.fd EXCEPT !.pos = Len(file.content)],
                                   !.pc = "filter"]
                ELSE [other EXCEPT !.pc = "done"]
    /\ UNCHANGED <<mainVars, codecVars, dispVars, histVars, fsVars>>

\* no cache file yet; one shortcut in a desktop directory; executables come and
\* go in the $PATH directory while the first run has not started
RaceInit ==
    /\ pc = "idle"
    /\ cache = EmptyMap
    /\ text = <<>>
    /\ parsed = EmptyMap
    /\ dirs = [d \in Watched |->
                  Dir("ok", IF d = "usr" THEN {Shortcut(<<"a">>, <<"F">>)} ELSE {}, UNIX_EPOCH)]
    /\ file = NoFile
    /\ now = 1
    /\ rebuild = FALSE
    /\ fd = NoFd
    /\ args = {}
    /\ unfiltered = EmptyMap
    /\ menu = <<>>
    /\ output = <<>>
    /\ selStatus = NoCode
    /\ spawned = <<>>
    /\ kids = NoKids
    /\ exit = NoExit
    /\ lastRun = "none"
    /\ stdout = <<>>
    /\ other = NoRun

RaceNext ==
    \/ Start
    \/ OpenCache
    \/ BuildPath
    \/ BuildDesktop
    \/ Load
    \/ OtherStart
    \/ OtherOpen
    \/ OtherBuildPath
    \/ OtherBuildDesktop
    \/ OtherLoad
    \/ \E d \in Range(PATH_DIRS) : Modify(d)
    \/ Tick

SpecRace == RaceInit /\ [][RaceNext]_vars

(***************************************************************************)
(* A rebuild over one $PATH directory that holds one entry of any kind,    *)
(* any permission bits, with or without readable metadata, openable or not *)
(***************************************************************************)
ScanEntries ==
    [name : {<<"F">>}, kind : {"file", "dir", "symlink"}, perm : 0..511,
     meta : BOOLEAN, openOk : BOOLEAN, lines : {<<>>}]

ScanInit ==
    /\ pc = "idle"
    /\ cache = EmptyMap
    /\ text = <<>>
    /\ parsed = EmptyMap
    /\ \E e \in ScanEntries :
         dirs = [d \in Watched |->
                    Dir("ok", IF d = PATH_DIRS[1] THEN {e} ELSE {}, UNIX_EPOCH)]
    /\ file = NoFile
    /\ now = 1
    /\ rebuild = FALSE
    /\ fd = NoFd
    /\ args = {}
    /\ unfiltered = EmptyMap
    /\ menu = <<>>
    /\ output = <<>>
    /\ selStatus = NoCode
    /\ spawned = <<>>
    /\ kids = NoKids
    /\ exit = NoExit
    /\ lastRun = "none"
    /\ stdout = <<>>
    /\ other = NoRun

ScanNext == Start \/ OpenCache \/ BuildPath \/ BuildDesktop

SpecScan == ScanInit /\ [][ScanNext]_vars

(***************************************************************************)
(* A rebuild over directories each of which is listable, unlistable or     *)
(* missing, with files that can or cannot be opened and a shortcut whose   *)
(* lines vary                                                              *)
(***************************************************************************)
\* what a shortcut file can hold: nothing, a Name= line, other lines before and
\* after the first Name= line, a name that itself starts with Name=, an empty
\* name, a localized name only
ShortcutLines ==
    {<<>>,
     <<NAME_EQ \o <<"F">>>>,
     <<(<<"X">>), NAME_EQ \o <<"X">>, NAME_EQ \o <<"F">>>>,
     <<NAME_EQ \o NAME_EQ \o <<"F">>>>,
     <<NAME_EQ>>,
     <<(<<"N", "a", "m", "e", "[", "d", "e", "]", "=", "F">>)>>}

BuildStates == {"ok", "nolist", "gone"}

BuildInit ==
    /\ pc = "idle"
    /\ cache = EmptyMap
    /\ text = <<>>
    /\ parsed = EmptyMap
    /\ \E st \in [Watched -> BuildStates], ls \in ShortcutLines, o1, o2 \in BOOLEAN :
         dirs = [d \in Watched |->
                    Dir(st[d],
                        CASE d = "bin" -> {[Exe(<<"F">>) EXCEPT !.openOk = o1]}
                          [] d = "usr" -> {[Shortcut(<<"a">>, <<>>) EXCEPT !.lines = ls]}
                          [] d = "local" -> {[Shortcut(<<"b">>, <<"F">>) EXCEPT !.openOk = o2]}
                          [] OTHER -> {},
                        UNIX_EPOCH)]
    /\ file = NoFile
    /\ now = 1
    /\ rebuild = FALSE
    /\ fd = NoFd
    /\ args = {}
    /\ unfiltered = EmptyMap
    /\ menu = <<>>
    /\ output = <<>>
    /\ selStatus = NoCode
    /\ spawned = <<>>
    /\ kids = NoKids
    /\ exit = NoExit
    /\ lastRun = "none"
    /\ stdout = <<>>
    /\ other = NoRun

BuildNext == Start \/ OpenCache \/ BuildPath \/ BuildDesktop

SpecBuild == BuildInit /\ [][BuildNext]_vars

(***************************************************************************)
(* Serialization and parsing on their own: every mapping of bounded size   *)
(* over a small alphabet that includes the separators                      *)
(***************************************************************************)
MaxEntries == 2

\* keys and values: empty, plain, and holding each separator
CodecStrs ==
    {<<>>, <<"a">>, <<"b">>, <<"a", "b">>, <<NUL>>, <<LF>>, <<CR>>, <<"a", CR>>}

CodecMaps ==
    UNION {[D -> CodecStrs] : D \in {D \in SUBSET CodecStrs : Cardinality(D) <= MaxEntries}}

CodecInit ==
    /\ pc = "serialize"
    /\ cache \in CodecMaps
    /\ text = <<>>
    /\ parsed = EmptyMap
    /\ dirs = [d \in Watched |-> Dir("ok", {}, UNIX_EPOCH)]
    /\ file = NoFile
    /\ now = 1
    /\ rebuild = FALSE
    /\ fd = NoFd
    /\ args = {}
    /\ unfiltered = EmptyMap
    /\ menu = <<>>
    /\ output = <<>>
    /\ selStatus = NoCode
    /\ spawned = <<>>
    /\ kids = NoKids
    /\ exit = NoExit
    /\ lastRun = "none"
    /\ stdout = <<>>
    /\ other = NoRun

\* cache.to_string(): Display over some iteration order
CodecSerialize ==
    /\ pc = "serialize"
    /\ \E o \in Orders(cache) : text' = Display(cache, o)
    /\ pc' = "parse"
    /\ UNCHANGED <<cache, parsed, fsVars, rebuild, fd, dispVars, histVars, otherVars>>

\* Cache::from_str(&text)
CodecParse ==
    /\ pc = "parse"
    /\ parsed' = FromStr(text)
    /\ pc' = "parsed"
    /\ UNCHANGED <<cache, text, fsVars, rebuild, fd, dispVars, histVars, otherVars>>

CodecNext == CodecSerialize \/ CodecParse

SpecCodec == CodecInit /\ [][CodecNext]_vars

\* no key and no value of m holds the field separator or a line terminator
Clean(m) ==
    \A k \in DOMAIN m :
        \A s \in {k, m[k]} : \A i \in 1..Len(s) : s[i] \notin {NUL, LF, CR}

\* C4: parsing the serialization of a mapping free of NUL, LF and CR gives back
\* exactly the mapping's key/value pairs, whatever the iteration order
RoundTrip ==
    (pc = "parsed" /\ Clean(cache)) =>
        /\ DOMAIN parsed = DOMAIN cache
        /\ \A k \in DOMAIN cache : parsed[k] = cache[k]

\* a clean mapping with two entries, one with an empty key and one with an
\* empty value, has been serialized and parsed
RoundTripWitness ==
    /\ pc = "parsed"
    /\ Clean(cache)
    /\ Cardinality(DOMAIN cache) = 2
    /\ <<>> \in DOMAIN cache
    /\ \E k \in DOMAIN cache : k # <<>> /\ cache[k] = <<>>

(***************************************************************************)
(* The cache lifecycle: properties                                         *)
(***************************************************************************)
\* C2: a run decides to rebuild exactly when the cache file does not exist or
\* some watched directory with readable metadata is strictly newer than the
\* cache file; an equal, older or unreadable directory never forces a rebuild
RebuildIffStale ==
    pc = "open" =>
        /\ ~file.exists => rebuild
        /\ (\E d \in Watched : dirs[d].state # "gone" /\ dirs[d].mtime > file.mtime) => rebuild
        /\ (/\ file.exists
            /\ \A d \in Watched : dirs[d].state = "gone" \/ dirs[d].mtime <= file.mtime)
           => ~rebuild

\* the cache file exists and the run has decided not to rebuild although one
\* directory is as new as the cache file and another cannot be read
RebuildIffStaleWitness ==
    /\ pc = "open"
    /\ file.exists
    /\ ~rebuild
    /\ \E d \in Watched : dirs[d].state # "gone" /\ dirs[d].mtime = file.mtime
    /\ \E d \in Watched : dirs[d].state = "gone"

\* C3: after a rebuild the cache file, when parsed, is exactly the mapping the
\* run built, whatever the file held before
RebuildReplacesFile ==
    (pc = "filter" /\ rebuild) => FromStr(file.content) = cache

\* the sources of a rebuild in scan order (lines 71-72, 225, 200)
Sources == PATH_DIRS \o DESKTOP_DIRS

\* the targets source i contributes for display name k
Yields(i, k) ==
    LET d == dirs[Sources[i]]
    IN  IF d.state # "ok" THEN {}
        ELSE IF i <= Len(PATH_DIRS)
        THEN {e.name : e \in {x \in d.entries :
                  PathPredicate(x) /\ x.openOk /\ PathLocalizer(x) = k}}
        ELSE {e.name : e \in {x \in d.entries :
                  DesktopPredicate(x) /\ x.openOk /\ DesktopLocalizer(x) = k}}

SourcesOf(k) == {i \in DOMAIN Sources : Yields(i, k) # {}}

LastSource(k) == CHOOSE i \in SourcesOf(k) : \A j \in SourcesOf(k) : j <= i

\* the mapping built by a rebuild holds, for a display name that several sources
\* produce, the target of the source scanned last
LastSourceWins ==
    (pc = "filter" /\ rebuild) =>
        \A k \in DOMAIN cache :
            Cardinality(SourcesOf(k)) > 1 => cache[k] \in Yields(LastSource(k), k)

\* C9: a display name produced by several sources resolves to the source
\* scanned last, in the built mapping and in the persisted file when loaded
CollisionPrecedence ==
    (pc = "filter" /\ rebuild) =>
        \A k \in DOMAIN cache :
            Cardinality(SourcesOf(k)) > 1 =>
                /\ cache[k] \in Yields(LastSource(k), k)
                /\ k \in DOMAIN FromStr(file.content)
                /\ FromStr(file.content)[k] = cache[k]

(***************************************************************************)
(* The filters and the dispatch: properties                                *)
(***************************************************************************)
\* every process of the run has ended
Finished == pc = "done" /\ \A r \in DOMAIN kids : kids[r] \in {"none", "done"}

\* who spawned what, with which arguments
Launches == [i \in DOMAIN spawned |-> <<spawned[i].by, spawned[i].prog, spawned[i].args>>]

\* the launch of the desktop branch: the helper, by the detached copy, once that
\* copy exists
HelperLaunch ==
    IF kids["bg"] = "none" THEN <<>>
    ELSE <<(<<"bg", GTK_LAUNCH, <<cache[output]>>>>)>>

\* C1 as stated: the lookup alone chooses the launch; an output that is no key
\* has its first token spawned with the other tokens as arguments, a direct
\* entry is spawned without arguments and without detaching, a desktop entry
\* has the process detach and the helper invoked with the entry's target
LookupChoosesLaunch ==
    Finished =>
        /\ output \notin DOMAIN cache =>
              /\ SplitWhitespace(output) # <<>>
              /\ Launches = <<(<<"fg", Head(SplitWhitespace(output)),
                                 Tail(SplitWhitespace(output))>>)>>
              /\ kids = NoKids
        /\ (output \in DOMAIN cache /\ cache[output] = output) =>
              /\ Launches = <<(<<"fg", cache[output], <<>>>>)>>
              /\ kids = NoKids
        /\ (output \in DOMAIN cache /\ cache[output] # output) =>
              Launches = HelperLaunch

\* C1, amended: as stated for every output that is a key or has a token; an
\* output without a token that is no key launches nothing; no run launches
\* more than one command
LookupChoosesLaunchOrNone ==
    /\ Len(spawned) <= 1
    /\ Finished =>
        /\ (output \notin DOMAIN cache /\ SplitWhitespace(output) = <<>>) =>
              /\ Launches = <<>>
              /\ kids = NoKids
        /\ (output \notin DOMAIN cache /\ SplitWhitespace(output) # <<>>) =>
              /\ Launches = <<(<<"fg", Head(SplitWhitespace(output)),
                                 Tail(SplitWhitespace(output))>>)>>
              /\ kids = NoKids
        /\ (output \in DOMAIN cache /\ cache[output] = output) =>
              /\ Launches = <<(<<"fg", cache[output], <<>>>>)>>
              /\ kids = NoKids
        /\ (output \in DOMAIN cache /\ cache[output] # output) =>
              Launches = HelperLaunch

\* the typed command line "ls -la /tmp" has been launched as ls with the
\* arguments -la and /tmp
LookupChoosesLaunchWitness ==
    /\ Finished
    /\ output = Ls
    /\ Launches = <<(<<"fg", <<"l", "s">>, <<(<<"-", "l", "a">>), <<"/", "t", "m", "p">>>>>>)>>

\* the command process r launched did not start, or r found no token to launch
Panicked(r) ==
    \/ \E i \in DOMAIN spawned : spawned[i].by = r /\ ~spawned[i].started
    \/ r = "fg" /\ pc = "done" /\ spawned = <<>> /\ kids = NoKids
          /\ output \notin DOMAIN cache

\* what line 140 would give if the launched command's status came first
TargetFirst(r) ==
    IF LaunchedStatus(r) # NoCode THEN LaunchedStatus(r)
    ELSE IF selStatus # NoCode THEN selStatus
    ELSE Code(-1)

\* C5 as stated: a process that leaves through line 140 exits with the launched
\* target's status when known, else the selector's, else the fallback
ExitIsTargetStatus ==
    \A r \in Roles :
        (exit[r] # NoCode /\ ~Panicked(r) /\ ~(r = "fg" /\ kids["mid"] # "none"))
            => exit[r] = TargetFirst(r)

\* C5, amended: a process that leaves through line 140 exits with the selector's
\* status when known and with -1 otherwise, whatever the launched target's
\* status; the foreground process of a successful detach exits with 0
ExitIsSelectorStatus ==
    \A r \in Roles :
        exit[r] # NoCode =>
            exit[r] = IF Panicked(r) THEN Code(PanicCode)
                      ELSE IF r = "fg" /\ kids["mid"] # "none" THEN Code(0)
                      ELSE IF selStatus # NoCode THEN selStatus
                      ELSE Code(-1)

\* the target ended with status 3, the selector with 1, and the run with 1
ExitIsSelectorStatusWitness ==
    /\ pc = "done"
    /\ LaunchedStatus("fg") = Code(3)
    /\ selStatus = Code(1)
    /\ exit["fg"] = Code(1)

\* the filters have run
Filtered == pc \in {"menu", "select", "dispatch", "exit", "done"}

\* neither filter adds or changes an entry
FilterOnlyRemoves ==
    \A k \in DOMAIN cache : k \in DOMAIN unfiltered /\ cache[k] = unfiltered[k]

VimAndFirefox == [k \in {Vim, Firefox} |-> IF k = Vim THEN Vim ELSE FirefoxDesktop]

\* C6 as stated: -p leaves exactly the entries whose key differs from the value,
\* -d removes the desktop entries (key differs from value) and leaves the direct
\* entries (key is value)
FiltersByKind ==
    Filtered =>
        /\ FilterOnlyRemoves
        /\ args = {"-p"} => DOMAIN cache = {k \in DOMAIN unfiltered : unfiltered[k] # k}
        /\ args = {"-d"} => DOMAIN cache = {k \in DOMAIN unfiltered : unfiltered[k] = k}

\* C6, amended: -p leaves exactly the entries whose key differs from the value;
\* -d removes every desktop entry and leaves every direct entry whose name does
\* not end in .desktop; {vim, Firefox} becomes {Firefox} under -p and {vim}
\* under -d; neither filter adds or changes an entry
FiltersByKindButSuffix ==
    Filtered =>
        /\ FilterOnlyRemoves
        /\ args = {"-p"} => DOMAIN cache = {k \in DOMAIN unfiltered : unfiltered[k] # k}
        /\ "-p" \in args => \A k \in DOMAIN cache : cache[k] # k
        /\ "-d" \in args =>
              \A k \in DOMAIN cache : ~(cache[k] # k /\ EndsWith(cache[k], DESKTOP))
        /\ args = {"-d"} =>
              \A k \in DOMAIN unfiltered :
                  (unfiltered[k] = k /\ ~EndsWith(k, DESKTOP)) => k \in DOMAIN cache
        /\ (unfiltered = VimAndFirefox /\ args = {"-p"}) =>
              cache = [k \in {Firefox} |-> FirefoxDesktop]
        /\ (unfiltered = VimAndFirefox /\ args = {"-d"}) => cache = [k \in {Vim} |-> Vim]

\* -p has turned {vim -> vim, Firefox -> firefox.desktop} into the Firefox entry
FiltersWitness ==
    /\ pc = "menu"
    /\ args = {"-p"}
    /\ unfiltered = VimAndFirefox
    /\ DOMAIN cache = {Firefox}

\* C7 as stated: -d removes the entries whose value does not end in .desktop
\* and keeps the entries whose value does
HideDesktopKeepsShortcuts ==
    (Filtered /\ args = {"-d"}) =>
        DOMAIN cache = {k \in DOMAIN unfiltered : EndsWith(unfiltered[k], DESKTOP)}

\* C7, amended: -d removes the entries whose value ends in .desktop and keeps
\* the entries whose value does not
HideDesktopRemovesShortcuts ==
    (Filtered /\ "-d" \in args) =>
        /\ \A k \in DOMAIN unfiltered :
              EndsWith(unfiltered[k], DESKTOP) => k \notin DOMAIN cache
        /\ args = {"-d"} =>
              \A k \in DOMAIN unfiltered :
                  ~EndsWith(unfiltered[k], DESKTOP) => k \in DOMAIN cache

\* -d has removed the Firefox shortcut and kept vim
HideDesktopWitness ==
    /\ pc = "menu"
    /\ args = {"-d"}
    /\ unfiltered = VimAndFirefox
    /\ DOMAIN cache = {Vim}

\* the selector has returned
Selected == pc \in {"dispatch", "exit", "done"}

\* C10 as stated: an empty output launches nothing and aborts the run, whatever
\* the cache holds
EmptyOutputAborts ==
    (Selected /\ output = <<>>) =>
        /\ spawned = <<>>
        /\ kids = NoKids
        /\ pc # "exit"
        /\ pc = "done" => exit["fg"] = Code(PanicCode)

\* C10, amended: an empty output launches nothing and aborts the run unless the
\* empty string is a key of the cache
EmptyOutputAbortsUnlessKey ==
    (Selected /\ output = <<>> /\ <<>> \notin DOMAIN cache) =>
        /\ spawned = <<>>
        /\ kids = NoKids
        /\ pc # "exit"
        /\ pc = "done" => exit["fg"] = Code(PanicCode)

\* the menu was cancelled, the cache has entries but no empty key, and the run
\* has aborted
EmptyOutputWitness ==
    /\ pc = "done"
    /\ output = <<>>
    /\ cache # EmptyMap
    /\ <<>> \notin DOMAIN cache
    /\ spawned = <<>>
    /\ exit["fg"] = Code(PanicCode)

(***************************************************************************)
(* The path builder: properties                                            *)
(***************************************************************************)
\* the path scan has run
PathBuilt == pc = "build_desktop"

HasBit(e, b) == (e.perm \div b) % 2 = 1

\* C8 as stated: an entry is kept exactly when it is a regular file with at
\* least one of the owner, group and other executable bits, and is mapped from
\* its name to its name (for entries that can be read and opened)
PathKeepsAnyBit ==
    PathBuilt =>
        \A e \in dirs[PATH_DIRS[1]].entries :
            (e.meta /\ e.openOk) =>
                /\ e.name \in DOMAIN cache <=>
                      (e.kind = "file" /\ \E b \in {64, 8, 1} : HasBit(e, b))
                /\ e.name \in DOMAIN cache => cache[e.name] = e.name

\* C8, amended: an entry is kept exactly when its metadata can be read, it is a
\* regular file with all of the owner, group and other executable bits, and it
\* can be opened; it is mapped from its name to its name
PathKeepsAllBits ==
    PathBuilt =>
        /\ \A e \in dirs[PATH_DIRS[1]].entries :
            /\ e.name \in DOMAIN cache <=>
                  /\ e.meta
                  /\ e.openOk
                  /\ e.kind = "file"
                  /\ \A b \in {64, 8, 1} : HasBit(e, b)
            /\ e.name \in DOMAIN cache => cache[e.name] = e.name
        /\ DOMAIN cache \subseteq {e.name : e \in dirs[PATH_DIRS[1]].entries}

\* a regular file with mode 0o755 has been kept under its own name
PathKeepsWitness ==
    /\ PathBuilt
    /\ \E e \in dirs[PATH_DIRS[1]].entries : e.perm = 493 /\ e.kind = "file"
    /\ cache = [k \in {<<"F">>} |-> <<"F">>]

(***************************************************************************)
(* Parsing: malformed lines                                                *)
(***************************************************************************)
\* the number of NUL separators of a line
Seps(l) == Cardinality({i \in 1..Len(l) : l[i] = NUL})

\* the lines of the text with exactly one separator, in order
WellFormedLines == SelectSeq(Lines(text), LAMBDA l : Seps(l) = 1)

KeyOf(l) == SubSeq(l, 1, IndexOf(l, NUL, 1) - 1)

ValueOf(l) == SubSeq(l, IndexOf(l, NUL, 1) + 1, Len(l))

\* C11: the parsed mapping holds exactly the entries of the lines with exactly
\* one NUL separator (the last such line of a key gives its value); a line with
\* no separator or with two or more contributes nothing and changes nothing
MalformedLinesDiscarded ==
    pc = "parsed" =>
        LET wf == WellFormedLines
        IN  /\ DOMAIN parsed = {KeyOf(wf[i]) : i \in DOMAIN wf}
            /\ \A k \in DOMAIN parsed :
                  LET is == {i \in DOMAIN wf : KeyOf(wf[i]) = k}
                      last == CHOOSE i \in is : \A j \in is : j <= i
                  IN  parsed[k] = ValueOf(wf[last])

\* a text with a line without separator, a line with two separators and one
\* well-formed line has been parsed to the one well-formed entry
MalformedLinesWitness ==
    /\ pc = "parsed"
    /\ \E i \in DOMAIN Lines(text) : Seps(Lines(text)[i]) = 0
    /\ \E i \in DOMAIN Lines(text) : Seps(Lines(text)[i]) >= 2
    /\ Len(WellFormedLines) = 1
    /\ Cardinality(DOMAIN parsed) = 1

(***************************************************************************)
(* The desktop branch: who invokes the helper, and when                    *)
(***************************************************************************)
\* the dispatch has found a desktop entry (lines 115-117, 122)
DesktopSelected == pc = "dispatch" /\ output \in DOMAIN cache /\ output # cache[output]

\* the run took the desktop branch
DesktopBranch == output \in DOMAIN cache /\ output # cache[output] /\ pc \in {"exit", "done"}

\* the spawns of the helper
HelperSpawns == SelectSeq(spawned, LAMBDA x : x.prog = GTK_LAUNCH)

HelperInvoked ==
    \E i \in DOMAIN spawned :
        /\ spawned[i].by = "bg"
        /\ spawned[i].prog = GTK_LAUNCH
        /\ spawned[i].args = <<cache[output]>>

\* in the desktop branch the helper is spawned at most once, by the detached
\* copy only, after the process the user started has left daemon() with exit
\* status 0 and the session leader has forked; the process the user started
\* spawns nothing
HelperOnlyDetached ==
    DesktopBranch =>
        /\ Len(spawned) <= 1
        /\ \A i \in DOMAIN spawned :
              /\ spawned[i].by = "bg"
              /\ spawned[i].prog = GTK_LAUNCH
              /\ spawned[i].args = <<cache[output]>>
              /\ pc = "done"
              /\ exit["fg"] = Code(0)
              /\ kids["mid"] \in {"exit", "done"}

\* the desktop branch is over and daemon() never produced the detached copy
ForkFailed == Finished /\ kids["bg"] = "none"

\* C12 as stated: the helper is invoked by the detached copy only, after the
\* detachment, at most once, never by the process the user started, and
\* whenever a desktop entry is selected the helper is eventually invoked with
\* the entry's shortcut filename
HelperEventuallyInvoked == []HelperOnlyDetached /\ (DesktopSelected ~> HelperInvoked)

\* C12, amended: the helper is invoked by the detached copy only, after the
\* detachment, at most once, never by the process the user started, and
\* whenever a desktop entry is selected, eventually the helper is invoked with
\* the entry's shortcut filename or the run has ended after a fork of daemon()
\* failed
HelperInvokedUnlessForkFails ==
    []HelperOnlyDetached /\ (DesktopSelected ~> (HelperInvoked \/ ForkFailed))

\* the detached copy has invoked the helper with the shortcut of the selected
\* desktop entry, after the process the user started has exited with 0
HelperInvokedWitness ==
    /\ output = Firefox
    /\ HelperInvoked
    /\ exit["fg"] = Code(0)
    /\ kids["mid"] = "done"

(***************************************************************************)
(* Freshness after a rebuild, and the cache file in a run that reuses it   *)
(***************************************************************************)
\* C13: once a run that rebuilt the cache has completed, and until a watched
\* directory is modified, a run decides not to rebuild, never scans and goes
\* on to load the file, whatever the rebuild found
RebuildMakesFresh ==
    (lastRun = "rebuilt" /\ pc # "idle") =>
        /\ ~rebuild
        /\ pc \in {"open", "load", "filter"}

\* C15: no step of a run that decided not to rebuild changes the content of
\* the cache file, whatever the flags, the selector's output and the outcome
\* of the open
FreshRunKeepsFile ==
    [][(pc # "idle" /\ ~rebuild) => file'.content = file.content]_vars

(***************************************************************************)
(* Picking a displayed name                                                *)
(***************************************************************************)
\* the selector printed exactly the key k of the cache and a line end
Picked(k) == k \in DOMAIN cache /\ stdout = k \o <<LF>>

\* C14: when the selector prints exactly a key k of the filtered cache, the
\* lookup of line 115 is made with k, and whatever is launched is cache[k]
\* itself without arguments or the helper with the argument cache[k]
PickLaunchesEntry ==
    \A k \in DOMAIN cache :
        (Picked(k) /\ pc \in {"dispatch", "exit", "done"}) =>
            /\ output = k
            /\ \A i \in DOMAIN spawned :
                  \/ Launches[i] = <<"fg", cache[k], <<>>>>
                  \/ Launches[i] = <<"bg", GTK_LAUNCH, <<cache[k]>>>>

(***************************************************************************)
(* The rebuild: the key of a shortcut, and what cannot be scanned          *)
(***************************************************************************)
\* the first line of a shortcut that begins with Name=, without its first five
\* characters; the empty string when no line begins with Name=
FirstNameKey(e) ==
    LET is == {i \in DOMAIN e.lines : StartsWith(e.lines[i], NAME_EQ)}
        first == CHOOSE i \in is : \A j \in is : i <= j
    IN  IF is = {} THEN <<>>
        ELSE SubSeq(e.lines[first], Len(NAME_EQ) + 1, Len(e.lines[first]))

\* the shortcuts a rebuild scans: regular files named *.desktop of a listable
\* desktop directory that can be opened
ScannedShortcuts ==
    UNION {{e \in dirs[d].entries : DesktopPredicate(e) /\ e.openOk} :
              d \in {x \in Range(DESKTOP_DIRS) : dirs[x].state = "ok"}}

\* C16: after a rebuild every scanned shortcut's key is its first Name= line
\* without that one Name= prefix (the empty string when it has no such line),
\* and the key's value is the filename, extension included, of a scanned
\* shortcut with that key
ShortcutKeyIsName ==
    (pc = "filter" /\ rebuild) =>
        \A e \in ScannedShortcuts :
            /\ FirstNameKey(e) \in DOMAIN cache
            /\ \/ cache[FirstNameKey(e)] = e.name
               \/ \E x \in ScannedShortcuts :
                     /\ x # e
                     /\ FirstNameKey(x) = FirstNameKey(e)
                     /\ cache[FirstNameKey(e)] = x.name

\* every key a scan of the current directories can produce
AllKeys ==
    DOMAIN cache \cup {PathLocalizer(e) : e \in Entries(dirs)}
                 \cup {DesktopLocalizer(e) : e \in Entries(dirs)}

\* C18: a rebuild always completes; a directory that is missing or cannot be
\* listed and a file that cannot be opened contribute no entry, and every
\* qualifying file that can be opened, of every directory that can be listed,
\* has its key in the built mapping, with the target of the source scanned last
UnreadableSkipped ==
    /\ pc # "done"
    /\ (pc = "filter" /\ rebuild) =>
          /\ \A k \in AllKeys : (k \in DOMAIN cache) = (SourcesOf(k) # {})
          /\ \A k \in DOMAIN cache : cache[k] \in Yields(LastSource(k), k)

\* a rebuild has completed although one directory is missing, another cannot
\* be listed and a file of a listable directory cannot be opened; the mapping
\* holds the shortcut of the remaining directory and nothing else
UnreadableSkippedWitness ==
    /\ pc = "filter"
    /\ rebuild
    /\ dirs["bin"].state = "ok"
    /\ \E e \in dirs["bin"].entries : PathPredicate(e) /\ ~e.openOk
    /\ dirs["usr"].state = "nolist"
    /\ dirs["Desktop"].state = "gone"
    /\ dirs["local"].state = "ok"
    /\ DOMAIN cache = {<<"F">>}
    /\ cache[<<"F">>] = <<"b">> \o DESKTOP

(***************************************************************************)
(* The text written to the selector                                        *)
(***************************************************************************)
\* the menu has been written
MenuWritten == pc \in {"select", "dispatch", "exit", "done"}

\* the lines of q are the keys of the filtered cache, each once, ascending
LinesAreKeys(q) ==
    /\ Len(q) = Cardinality(DOMAIN cache)
    /\ Range(q) = DOMAIN cache
    /\ \A i, j \in DOMAIN q : i < j => (StrLe(q[i], q[j]) /\ q[i] # q[j])
    /\ Range(q) \cap (DOMAIN unfiltered \ DOMAIN cache) = {}

\* C17 as stated: the lines of the text written to the selector are exactly the
\* keys of the cache after filtering, each once, in ascending order; no key
\* that a filter removed is a line of the text
MenuIsKeys == MenuWritten => LinesAreKeys(Lines(menu))

\* C17, amended: as stated when the filtered cache has a key; when it has
\* none, the text is one empty line
MenuIsKeysOrBlankLine ==
    MenuWritten =>
        IF DOMAIN cache = {} THEN menu = <<LF>> ELSE LinesAreKeys(Lines(menu))

\* a filter has removed a key, two keys are left and the menu is written
MenuIsKeysWitness ==
    /\ pc = "select"
    /\ args # {}
    /\ Cardinality(DOMAIN cache) = 2
    /\ DOMAIN unfiltered \ DOMAIN cache # {}
    /\ Len(Lines(menu)) = 2

(***************************************************************************)
(* Two runs rebuilding at the same time                                    *)
(***************************************************************************)
\* the number of bytes of the serialization of m
RECURSIVE SerializedLen(_, _)
SerializedLen(m, ks) ==
    IF ks = {} THEN 0
    ELSE LET k == CHOOSE x \in ks : TRUE
         IN  Len(FmtEntry(k, m[k])) + SerializedLen(m, ks \ {k})

\* both runs rebuilt and have written everything
BothRebuilt ==
    /\ pc = "filter"
    /\ rebuild
    /\ other.pc = "filter"
    /\ other.rebuild

\* C19: nothing orders the writes of two rebuilding runs: each run writes
\* through its own description of the cache file, not in append mode, at an
\* offset that counts only the bytes the run itself has written, whatever the
\* other run has written to the file in the meantime
RunsWriteAtOwnOffsets ==
    /\ (pc = "build_desktop" /\ rebuild) =>
          /\ fd.write /\ ~fd.append
          /\ fd.pos = SerializedLen(cache, DOMAIN cache)
    /\ (other.pc = "build_desktop" /\ other.rebuild) =>
          /\ other.fd.write /\ ~other.fd.append
          /\ other.fd.pos = SerializedLen(other.cache, DOMAIN other.cache)

\* two runs have rebuilt with interleaved writes, and the cache file parses to
\* a mapping that is neither the one run's nor the other's
RaceCorruptsWitness ==
    /\ BothRebuilt
    /\ FromStr(file.content) # cache
    /\ FromStr(file.content) # other.cache

====
